---- MODULE Spec2Model ----
(***************************************************************************)
(* Model of src/main.py: the anytime-touchdown odds adjustment service.    *)
(*                                                                         *)
(* Numbers.  The program computes in IEEE doubles; the model computes in   *)
(* exact rationals [n, d] kept in lowest terms, and rounds them where the  *)
(* program calls round().  Text that the program takes apart (player       *)
(* names) is a sequence of one-character strings; text it only compares    *)
(* (team names, bookmaker keys, ids) is a string.                          *)
(***************************************************************************)
EXTENDS Integers, Sequences, FiniteSets, TLC

(***************************************************************************)
(* Python values                                                           *)
(***************************************************************************)
\* Python's None where an object is expected
None == [none |-> TRUE]

\* What a function that may raise yields: the exception, or the value returned
Raised(m) == [raised |-> TRUE, msg |-> m]
Returned(v) == [raised |-> FALSE, value |-> v]

(***************************************************************************)
(* Exact rationals                                                         *)
(***************************************************************************)
Abs(x) == IF x < 0 THEN -x ELSE x

RECURSIVE GCD(_, _)
GCD(a, b) == IF b = 0 THEN a ELSE GCD(b, a % b)

Rat(n, d) ==
    LET s == IF d < 0 THEN -1 ELSE 1
        g == GCD(Abs(n), Abs(d))
    IN  [n |-> (s * n) \div g, d |-> (s * d) \div g]

RInt(i) == [n |-> i, d |-> 1]
RAdd(a, b) == Rat(a.n * b.d + b.n * a.d, a.d * b.d)
RSub(a, b) == Rat(a.n * b.d - b.n * a.d, a.d * b.d)
RMul(a, b) == Rat(a.n * b.n, a.d * b.d)
RDiv(a, b) == Rat(a.n * b.d, a.d * b.n)
RLt(a, b) == a.n * b.d < b.n * a.d
RLe(a, b) == a.n * b.d <= b.n * a.d
RMin(a, b) == IF RLe(a, b) THEN a ELSE b
RMax(a, b) == IF RLe(b, a) THEN a ELSE b

\* Python 3 round(x): the nearest integer, an exact tie going to the even one
Round(r) ==
    LET a == 2 * r.n + r.d
        b == 2 * r.d
        q == a \div b
    IN  IF a % b = 0 /\ q % 2 = 1 THEN q - 1 ELSE q

\* round(x, 4), round(x, 2) and round(x, 1) as a count of 10^-4, 10^-2, 10^-1
Round4(r) == Round(RMul(r, RInt(10000)))
Round2(r) == Round(RMul(r, RInt(100)))
Round1(r) == Round(RMul(r, RInt(10)))

(***************************************************************************)
(* Odds conversion helpers                                                 *)
(***************************************************************************)
american_to_prob(odds) ==
    IF odds.n = 0 THEN Raised("American odds cannot be 0")
    ELSE IF odds.n < 0
         THEN Returned(RDiv(RSub(RInt(0), odds), RAdd(RSub(RInt(0), odds), RInt(100))))
         ELSE Returned(RDiv(RInt(100), RAdd(odds, RInt(100))))

prob_to_american(p0) ==
    LET p == RMax(RMin(p0, Rat(999, 1000)), Rat(1, 1000))
    IN  IF RLe(Rat(1, 2), p)
        THEN Round(RDiv(RMul(RInt(-100), p), RSub(RInt(1), p)))
        ELSE Round(RDiv(RMul(RInt(100), RSub(RInt(1), p)), p))

decimal_to_american(d) ==
    IF RLe(d, RInt(1)) THEN -1000
    ELSE IF RLe(RInt(2), d) THEN Round(RMul(RSub(d, RInt(1)), RInt(100)))
    ELSE Round(RDiv(RInt(-100), RSub(d, RInt(1))))

clamp_prob(p) == RMax(Rat(1, 100), RMin(Rat(95, 100), p))

(***************************************************************************)
(* Text helpers                                                            *)
(***************************************************************************)
UPPER == <<"A","B","C","D","E","F","G","H","I","J","K","L","M",
           "N","O","P","Q","R","S","T","U","V","W","X","Y","Z">>
LOWER == <<"a","b","c","d","e","f","g","h","i","j","k","l","m",
           "n","o","p","q","r","s","t","u","v","w","x","y","z">>

\* str.lower() on one character
LowerChar(c) ==
    IF \E i \in 1..26 : UPPER[i] = c
    THEN LOWER[CHOOSE i \in 1..26 : UPPER[i] = c]
    ELSE c

IsSpace(c) == c \in {" ", "\t", "\n"}

\* str.split(): the maximal runs of non-whitespace characters
RECURSIVE SplitFrom(_, _, _)
SplitFrom(s, i, cur) ==
    IF i > Len(s) THEN (IF cur = <<>> THEN <<>> ELSE <<cur>>)
    ELSE IF IsSpace(s[i])
         THEN (IF cur = <<>> THEN <<>> ELSE <<cur>>) \o SplitFrom(s, i + 1, <<>>)
         ELSE SplitFrom(s, i + 1, Append(cur, s[i]))

Split(s) == SplitFrom(s, 1, <<>>)

\* " ".join(words)
RECURSIVE JoinSpace(_)
JoinSpace(ws) ==
    IF ws = <<>> THEN <<>>
    ELSE IF Len(ws) = 1 THEN ws[1]
    ELSE ws[1] \o <<" ">> \o JoinSpace(Tail(ws))

\* str.strip()
RECURSIVE LStrip(_)
LStrip(s) == IF s # <<>> /\ IsSpace(s[1]) THEN LStrip(Tail(s)) ELSE s

RECURSIVE RStrip(_)
RStrip(s) ==
    IF s # <<>> /\ IsSpace(s[Len(s)]) THEN RStrip(SubSeq(s, 1, Len(s) - 1)) ELSE s

Strip(s) == RStrip(LStrip(s))

NotDotComma(c) == c \notin {".", ","}

normalize_name(s) ==
    LET low == [i \in 1..Len(s) |-> LowerChar(s[i])]
    IN  JoinSpace(Split(SelectSeq(low, NotDotComma)))

(***************************************************************************)
(* Configuration and static tables                                         *)
(***************************************************************************)
BOOKMAKER_PRIORITY ==
    <<"fanduel", "betmgm", "caesars", "betrivers", "williamhill_us",
      "draftkings", "fanatics", "windcreek", "espnbet", "ballybet">>

\* the default of the CACHE_TTL_SECS environment setting, in seconds
CACHE_TTL_SECS == 3600

\* dict.get(k, default)
DGet(d, k, def) == IF k \in DOMAIN d THEN d[k] ELSE def

TEAM_CITY_TO_ABBR ==
    ("Arizona Cardinals" :> "ARI") @@ ("Atlanta Falcons" :> "ATL") @@ ("Baltimore Ravens" :> "BAL")
    @@ ("Buffalo Bills" :> "BUF") @@ ("Carolina Panthers" :> "CAR") @@ ("Chicago Bears" :> "CHI")
    @@ ("Cincinnati Bengals" :> "CIN") @@ ("Cleveland Browns" :> "CLE") @@ ("Dallas Cowboys" :> "DAL")
    @@ ("Denver Broncos" :> "DEN") @@ ("Detroit Lions" :> "DET") @@ ("Green Bay Packers" :> "GB")
    @@ ("Houston Texans" :> "HOU") @@ ("Indianapolis Colts" :> "IND") @@ ("Jacksonville Jaguars" :> "JAX")
    @@ ("Kansas City Chiefs" :> "KC") @@ ("Los Angeles Rams" :> "LAR") @@ ("Miami Dolphins" :> "MIA")
    @@ ("Minnesota Vikings" :> "MIN") @@ ("New England Patriots" :> "NE") @@ ("New Orleans Saints" :> "NO")
    @@ ("New York Giants" :> "NYG") @@ ("New York Jets" :> "NYJ") @@ ("Las Vegas Raiders" :> "LV")
    @@ ("Philadelphia Eagles" :> "PHI") @@ ("Pittsburgh Steelers" :> "PIT") @@ ("Los Angeles Chargers" :> "LAC")
    @@ ("San Francisco 49ers" :> "SF") @@ ("Seattle Seahawks" :> "SEA") @@ ("Tampa Bay Buccaneers" :> "TB")
    @@ ("Tennessee Titans" :> "TEN") @@ ("Washington Commanders" :> "WAS")

TEAM_NICK_TO_ABBR ==
    ("Cardinals" :> "ARI") @@ ("Falcons" :> "ATL") @@ ("Ravens" :> "BAL")
    @@ ("Bills" :> "BUF") @@ ("Panthers" :> "CAR") @@ ("Bears" :> "CHI")
    @@ ("Bengals" :> "CIN") @@ ("Browns" :> "CLE") @@ ("Cowboys" :> "DAL")
    @@ ("Broncos" :> "DEN") @@ ("Lions" :> "DET") @@ ("Packers" :> "GB")
    @@ ("Texans" :> "HOU") @@ ("Colts" :> "IND") @@ ("Jaguars" :> "JAX")
    @@ ("Chiefs" :> "KC") @@ ("Rams" :> "LAR") @@ ("Dolphins" :> "MIA")
    @@ ("Vikings" :> "MIN") @@ ("Patriots" :> "NE") @@ ("Saints" :> "NO")
    @@ ("Giants" :> "NYG") @@ ("Jets" :> "NYJ") @@ ("Raiders" :> "LV")
    @@ ("Eagles" :> "PHI") @@ ("Steelers" :> "PIT") @@ ("Chargers" :> "LAC")
    @@ ("49ers" :> "SF") @@ ("Seahawks" :> "SEA") @@ ("Buccaneers" :> "TB")
    @@ ("Titans" :> "TEN") @@ ("Commanders" :> "WAS")

\* {**TEAM_CITY_TO_ABBR, **TEAM_NICK_TO_ABBR}: the right operand wins
TEAM_NAME_TO_ABBR == TEAM_NICK_TO_ABBR @@ TEAM_CITY_TO_ABBR

(***************************************************************************)
(* parse_top200_blob.  The roster text is a sequence of characters with    *)
(* "\n" between lines.  The three regular expressions are compiled with    *)
(* re.MULTILINE; each is matched as the backtracking engine matches it:    *)
(* greedy quantifiers try the longest run first, the lazy ones the         *)
(* shortest, \s matches a newline, "." does not.                           *)
(***************************************************************************)
Letters == {UPPER[i] : i \in 1..26} \cup {LOWER[i] : i \in 1..26}

\* the class [A-Za-z .'\-]
TeamChars == Letters \cup {" ", ".", "'", "-"}

Max(S) == CHOOSE x \in S : \A y \in S : y <= x
Min(S) == CHOOSE x \in S : \A y \in S : x <= y

\* how many characters from position i on match \s
WsRun(s, i) ==
    Max({j \in i..(Len(s) + 1) : \A k \in i..(j - 1) : IsSpace(s[k])}) - i

\* how many characters from position i on match [A-Za-z .'\-]
TeamRun(s, i) ==
    Max({j \in i..(Len(s) + 1) : \A k \in i..(j - 1) : s[k] \in TeamChars}) - i

\* how many characters from position i on match "."
DotRun(s, i) ==
    Max({j \in i..(Len(s) + 1) : \A k \in i..(j - 1) : s[k] # "\n"}) - i

\* "^" and "$" under re.MULTILINE
AtLineStart(s, i) == i = 1 \/ s[i - 1] = "\n"
AtLineEnd(s, i) == i = Len(s) + 1 \/ s[i] = "\n"

\* the line a position lies in, counted from 1
LineOf(s, i) == 1 + Cardinality({k \in 1..(i - 1) : s[k] = "\n"})

\* ([A-Za-z .'\-]+)\s*$ from position d: the lengths t of the group for
\* which the rest matches
TeamLens(s, d) ==
    {t \in 1..TeamRun(s, d) :
        \E w \in 0..WsRun(s, d + t) : AtLineEnd(s, d + t + w)}

\* the match of ([A-Za-z .'\-]+)\s*$ from position d: both greedy
TeamTail(s, d) ==
    LET t == Max(TeamLens(s, d))
        w == Max({x \in 0..WsRun(s, d + t) : AtLineEnd(s, d + t + x)})
    IN  [team |-> SubSeq(s, d, d + t - 1), end |-> d + t + w]

\* ,\s+ (comma) or \s+ (no comma) from position x, then the team: the
\* numbers of whitespace characters for which the rest matches
SepLens(s, x, comma) ==
    LET y == IF comma THEN x + 1 ELSE x
    IN  IF comma /\ (x > Len(s) \/ s[x] # ",") THEN {}
        ELSE {w \in 1..WsRun(s, y) : TeamLens(s, y + w) # {}}

SepTail(s, x, comma) ==
    LET y == IF comma THEN x + 1 ELSE x
    IN  TeamTail(s, y + Max(SepLens(s, x, comma)))

POSITIONS == {<<"Q", "B">>, <<"R", "B">>, <<"W", "R">>, <<"T", "E">>}

\* pat_pos_comma (comma = TRUE) and pat_pos_nocomma (comma = FALSE) tried at
\* position p: the set holding the match, or the empty set
MatchPos(s, p, comma) ==
    LET q == p + WsRun(s, p)
        a == q + 2
        \* (.+?) of length L from position b, then the rest
        NameLens(b) == {L \in 1..DotRun(s, b) : SepLens(s, b + L, comma) # {}}
        Gaps == {w \in 1..WsRun(s, a) : NameLens(a + w) # {}}
    IN  IF ~AtLineStart(s, p) \/ q + 1 > Len(s) THEN {}
        ELSE IF <<s[q], s[q + 1]>> \notin POSITIONS \/ Gaps = {} THEN {}
        ELSE LET b == a + Max(Gaps)
                 L == Min(NameLens(b))
                 tl == SepTail(s, b + L, comma)
             IN  {[name |-> SubSeq(s, b, b + L - 1), team |-> tl.team,
                   end |-> tl.end, line |-> LineOf(s, q)]}

\* pat_nopos_comma tried at position p
MatchNoPos(s, p) ==
    LET q == p + WsRun(s, p)
        \* [A-Za-z][A-Za-z .'\-]+? of length L from position q
        NameLens == {L \in 2..TeamRun(s, q) : SepLens(s, q + L, TRUE) # {}}
    IN  IF ~AtLineStart(s, p) \/ q > Len(s) THEN {}
        ELSE IF s[q] \notin Letters \/ NameLens = {} THEN {}
        ELSE LET L == Min(NameLens)
                 tl == SepTail(s, q + L, TRUE)
             IN  {[name |-> SubSeq(s, q, q + L - 1), team |-> tl.team,
                   end |-> tl.end, line |-> LineOf(s, q)]}

PATTERNS == <<"pat_pos_comma", "pat_pos_nocomma", "pat_nopos_comma">>

Match(pat, s, p) ==
    IF pat = "pat_pos_comma" THEN MatchPos(s, p, TRUE)
    ELSE IF pat = "pat_pos_nocomma" THEN MatchPos(s, p, FALSE)
    ELSE MatchNoPos(s, p)

\* pat.findall(blob): the matches from left to right, each search starting
\* where the previous match ended
RECURSIVE FindAllFrom(_, _, _)
FindAllFrom(pat, s, pos) ==
    IF \A p \in pos..(Len(s) + 1) : Match(pat, s, p) = {} THEN <<>>
    ELSE LET first == CHOOSE p \in pos..(Len(s) + 1) :
                          /\ Match(pat, s, p) # {}
                          /\ \A r \in pos..(p - 1) : Match(pat, s, r) = {}
         IN  CHOOSE ms \in {<<m>> \o FindAllFrom(pat, s, m.end) :
                               m \in Match(pat, s, first)} : TRUE

FindAll(pat, s) == FindAllFrom(pat, s, 1)

\* str.upper() on one character
UpperChar(c) ==
    IF \E i \in 1..26 : LOWER[i] = c
    THEN UPPER[CHOOSE i \in 1..26 : LOWER[i] = c]
    ELSE c

\* str.startswith(prefix)
StartsWith(s, prefix) ==
    Len(s) >= Len(prefix) /\ SubSeq(s, 1, Len(prefix)) = prefix

\* the str of a sequence of characters
RECURSIVE StrOf(_)
StrOf(s) == IF s = <<>> THEN "" ELSE s[1] \o StrOf(Tail(s))

\* The table under construction: flat is the dict, line remembers for each
\* key the line of the text whose match wrote it.
\* {}: a dict without keys
EmptyDict == [k \in {} |-> ""]

NoEntries == [flat |-> EmptyDict, line |-> EmptyDict]

\* add(name, team_label) of parse_top200_blob, for a match in line ln
add(tab, name, team_label, ln) ==
    LET n == JoinSpace(Split(name))
        t == JoinSpace(Split(team_label))
        up == [i \in 1..Len(t) |-> UpperChar(t[i])]
        abbr == DGet(TEAM_NAME_TO_ABBR, StrOf(t), "")
    IN  IF StartsWith(up, <<"D", "/", "S", "T">>) \/ StartsWith(up, <<"D", "S", "T">>)
           \/ StartsWith(up, <<"K", " ">>) \/ StartsWith(up, <<"K">>)
        THEN tab
        ELSE IF abbr = "" THEN tab
        ELSE [flat |-> (n :> abbr) @@ tab.flat, line |-> (n :> ln) @@ tab.line]

\* one of the three loops of parse_top200_blob over the matches ms;
\* the first loop adds every match, the others skip a name already a key
RECURSIVE AddAll(_, _, _, _)
AddAll(tab, ms, i, always) ==
    IF i > Len(ms) THEN tab
    ELSE CHOOSE done \in
            {AddAll(next, ms, i + 1, always) :
                next \in {IF always \/ ms[i].name \notin DOMAIN tab.flat
                          THEN add(tab, ms[i].name, ms[i].team, ms[i].line)
                          ELSE tab}} : TRUE

ParseLoop(pat, tab, blob_text) ==
    CHOOSE done \in
        {AddAll(start, ms, 1, pat = "pat_pos_comma") :
            start \in {tab}, ms \in {FindAll(pat, s) : s \in {blob_text}}} : TRUE

ParseTable(blob_text) ==
    ParseLoop("pat_nopos_comma",
        ParseLoop("pat_pos_nocomma",
            ParseLoop("pat_pos_comma", NoEntries, blob_text), blob_text), blob_text)

parse_top200_blob(blob_text) ==
    IF blob_text = <<>> THEN EmptyDict ELSE ParseTable(blob_text).flat

\* The lines of the embedded Top-200 text that name the players the odds
\* responses of this model quote.
TOP200_BLOB ==
    <<"\n", "W", "R", " ", "A", ".", "J", ".", " ", "B", "r", "o", "w", "n", ",", " ", "E", "a", "g", "l", "e", "s", "\n">>
    \o <<"W", "R", " ", "D", "J", " ", "M", "o", "o", "r", "e", ",", " ", "B", "e", "a", "r", "s">>
    \o <<"\n", "Q", "B", " ", "B", "o", " ", "N", "i", "x", ",", " ", "B", "r", "o", "n", "c", "o", "s", "\n">>

TOP200_ROSTER == parse_top200_blob(TOP200_BLOB)

VARIABLES
    blob,               \* the roster text handed to parse_top200_blob
    flat,               \* the dict parse_top200_blob builds and returns
    flat_line,          \* history: for each key of flat, the line that wrote it
    parse_pc,           \* the loop parse_top200_blob runs next, then "done",
                        \* then "imported"
    PLAYER_TEAM_MAP     \* the module's table, built once at import

\* {normalize_name(k): v for k, v in d.items()}: keys that normalise alike
\* carry the same team, as every entry a line writes names that line's team
NormalizedMap(d) ==
    [k \in {normalize_name(n) : n \in DOMAIN d} |->
        d[CHOOSE n \in DOMAIN d : normalize_name(n) = k]]

player_team_lookup(player_name) ==
    DGet(PLAYER_TEAM_MAP, normalize_name(player_name), "TBD")

(***************************************************************************)
(* Upstream responses.  A response is [kind |-> k] with k one of           *)
(* "exception" (requests.get raises: connection error), "timeout"          *)
(* (requests.get raises after 30 s), "http_error" (a non-success status),  *)
(* "bad_json" (r.json() raises), or [kind |-> "ok", body |-> the JSON].    *)
(***************************************************************************)
FailKinds == {"exception", "timeout", "http_error", "bad_json"}

VARIABLES
    UNKNOWN_TEAM_MODE,  \* the deployment's setting, read once at import
    now,                \* time.time(), in whole seconds
    ticks,              \* how many times the clock has advanced
    _cache_blob,        \* the cached snapshot, or None
    _cache_ts,          \* the time written beside it
    ts_rid,             \* history: the refresh that wrote _cache_ts (0: none)
    failed_over,        \* history: the snapshot id a failed refresh left cached
    next_rid,           \* history: how many refresh_all calls have started
    requests,           \* how many requests have arrived
    th                  \* per request thread: its position, locals and response

\* what the import of the module leaves behind for the request handlers
roster_vars == <<blob, flat, flat_line, parse_pc, PLAYER_TEAM_MAP>>

vars == <<UNKNOWN_TEAM_MODE, now, ticks, _cache_blob, _cache_ts, ts_rid,
          failed_over, next_rid, requests, th, roster_vars>>

(***************************************************************************)
(* Data fetchers                                                           *)
(***************************************************************************)
\* the loop body of fetch_team_boosts for one game of the feed
BoostsOfGame(boosts, g) ==
    LET away == DGet(g, "away_team", "")
        home == DGet(g, "home_team", "")
        av == DGet(g, "away_vegas_tds", RInt(0))
        ap == DGet(g, "away_projected_tds", RInt(0))
        hv == DGet(g, "home_vegas_tds", RInt(0))
        hp == DGet(g, "home_projected_tds", RInt(0))
        b1 == IF away # "" /\ av.n # 0 /\ RLt(RInt(0), av)
              THEN (away :> RDiv(ap, av)) @@ boosts
              ELSE boosts
    IN  IF home # "" /\ hv.n # 0 /\ RLt(RInt(0), hv)
        THEN (home :> RDiv(hp, hv)) @@ b1
        ELSE b1

RECURSIVE BoostsOfGames(_, _)
BoostsOfGames(boosts, games) ==
    IF games = <<>> THEN boosts
    ELSE BoostsOfGames(BoostsOfGame(boosts, Head(games)), Tail(games))

\* requests.get raises, raise_for_status raises, r.json() raises, or the mapping
fetch_team_boosts(resp) ==
    IF resp.kind \in FailKinds THEN Raised(resp.kind)
    ELSE Returned(BoostsOfGames(<<>>, DGet(resp.body, "games", <<>>)))

fetch_nfl_events(resp) ==
    IF resp.kind \in FailKinds THEN Raised(resp.kind)
    ELSE Returned(resp.body)

\* None on a non-success status; the exceptions of requests.get and r.json()
fetch_anytime_market_for_event(resp) ==
    IF resp.kind = "http_error" THEN Returned(None)
    ELSE IF resp.kind \in FailKinds THEN Raised(resp.kind)
    ELSE Returned(resp.body)

(***************************************************************************)
(* Core processing                                                         *)
(***************************************************************************)
InPriority(key) == \E i \in 1..Len(BOOKMAKER_PRIORITY) : BOOKMAKER_PRIORITY[i] = key

\* "for bk in market.get('bookmakers', []): if bk.get('key') in
\* BOOKMAKER_PRIORITY: chosen_book = bk; break"
ChooseBook(market) ==
    LET bks == DGet(market, "bookmakers", <<>>)
        hits == {i \in 1..Len(bks) : InPriority(DGet(bks[i], "key", ""))}
    IN  IF hits = {} THEN None
        ELSE bks[CHOOSE i \in hits : \A j \in hits : i <= j]

\* the first market of the chosen bookmaker whose key is player_anytime_td
FindPatd(chosen_book) ==
    LET ms == DGet(chosen_book, "markets", <<>>)
        hits == {i \in 1..Len(ms) : DGet(ms[i], "key", "") = "player_anytime_td"}
    IN  IF hits = {} THEN None
        ELSE ms[CHOOSE i \in hits : \A j \in hits : i <= j]

\* UsedLift with the unknown-team policy left out: 1.0 for every player on
\* neither side
UsedLiftNoPolicy(pteam, home_abbr, away_abbr, lift_home, lift_away) ==
    IF pteam = home_abbr THEN lift_home
    ELSE IF pteam = away_abbr THEN lift_away
    ELSE RInt(1)

\* the multiplier of one outcome: the if/elif/else on pteam and the mode
UsedLift(pteam, home_abbr, away_abbr, lift_home, lift_away) ==
    IF pteam = home_abbr THEN lift_home
    ELSE IF pteam = away_abbr THEN lift_away
    ELSE IF UNKNOWN_TEAM_MODE = "average"
         THEN RDiv(RAdd(lift_home, lift_away), RInt(2))
    ELSE IF UNKNOWN_TEAM_MODE = "home" THEN lift_home
    ELSE IF UNKNOWN_TEAM_MODE = "away" THEN lift_away
    ELSE RInt(1)

\* The body of the outcome loop for one outcome that is not skipped: the
\* record appended to out, or the exception american_to_prob raises.
AdjustOutcome(player_name, raw_price, cx) ==
    LET decimal == RLt(RInt(1), raw_price) /\ RLt(raw_price, RInt(10))
        book_odds_american ==
            IF decimal THEN decimal_to_american(raw_price) ELSE Round(raw_price)
        converted ==
            IF decimal THEN Returned(RDiv(RInt(1), raw_price))
            ELSE american_to_prob(RInt(book_odds_american))
    IN  IF converted.raised THEN converted
        ELSE
        LET book_prob == converted.value
            pteam == player_team_lookup(player_name)
            used_lift == UsedLift(pteam, cx.home_abbr, cx.away_abbr,
                                  cx.lift_home, cx.lift_away)
            adj_prob == clamp_prob(RMul(book_prob, used_lift))
            edge_pp == RSub(adj_prob, book_prob)
        IN  Returned(
            [player_name |-> player_name,
             team |-> pteam,
             game |-> <<cx.away_abbr, "@", cx.home_abbr>>,
             commence_time |-> cx.commence_time,
             bookmaker |-> cx.bookmaker,
             book |-> [odds_american |-> book_odds_american,
                       implied_probability |-> Round4(book_prob),
                       implied_probability_pct |->
                           Round1(RMul(book_prob, RInt(100)))],
             adjusted |-> [team_lift |-> Round4(used_lift),
                           probability |-> Round4(adj_prob),
                           probability_pct |-> Round1(RMul(adj_prob, RInt(100))),
                           fair_odds_american |-> prob_to_american(adj_prob)],
             edge |-> [probability_points |-> Round4(edge_pp),
                       probability_points_pct |->
                           Round2(RMul(edge_pp, RInt(100))),
                       relative_uplift_pct |->
                           Round2(RMul(RDiv(edge_pp, book_prob), RInt(100)))]])

\* "for outcome in patd.get('outcomes', [])": out after the outcomes from i on,
\* or the exception that ends the loop
RECURSIVE OutcomeLoop(_, _, _, _)
OutcomeLoop(outcomes, i, out, cx) ==
    IF i > Len(outcomes) THEN Returned(out)
    ELSE
    LET outcome == outcomes[i]
        player_name == Strip(DGet(outcome, "description", <<>>))
        raw_price == DGet(outcome, "price", None)
    IN  IF DGet(outcome, "name", "") # "Yes"
        THEN OutcomeLoop(outcomes, i + 1, out, cx)
        ELSE IF player_name = <<>> \/ raw_price = None
        THEN OutcomeLoop(outcomes, i + 1, out, cx)
        ELSE LET rec == AdjustOutcome(player_name, raw_price, cx)
             IN  IF rec.raised THEN rec
                 ELSE OutcomeLoop(outcomes, i + 1, Append(out, rec.value), cx)

\* process_anytime_for_game(game, team_boosts), resp being what the odds
\* upstream answers for this game: the list out, or the exception raised
process_anytime_for_game(game, resp, team_boosts) ==
    LET game_id == DGet(game, "id", "")
        home_full == DGet(game, "home_team", "")
        away_full == DGet(game, "away_team", "")
        home_abbr == DGet(TEAM_CITY_TO_ABBR, home_full,
                          IF home_full # "" THEN home_full ELSE "HOME")
        away_abbr == DGet(TEAM_CITY_TO_ABBR, away_full,
                          IF away_full # "" THEN away_full ELSE "AWAY")
        fetched == fetch_anytime_market_for_event(resp)
    IN  IF game_id = "" THEN Returned(<<>>)
        ELSE IF fetched.raised THEN fetched
        ELSE IF fetched.value = None \/ DOMAIN fetched.value = {} THEN Returned(<<>>)
        ELSE
        LET market == fetched.value
            chosen_book == ChooseBook(market)
            patd == IF chosen_book = None THEN None ELSE FindPatd(chosen_book)
        IN  IF chosen_book = None \/ patd = None THEN Returned(<<>>)
            ELSE OutcomeLoop(DGet(patd, "outcomes", <<>>), 1, <<>>,
                     [home_abbr |-> home_abbr,
                      away_abbr |-> away_abbr,
                      commence_time |-> DGet(game, "commence_time", ""),
                      bookmaker |-> DGet(chosen_book, "key", ""),
                      lift_home |-> DGet(team_boosts, home_abbr, RInt(1)),
                      lift_away |-> DGet(team_boosts, away_abbr, RInt(1))])

(***************************************************************************)
(* refresh_all: the loop over the events, and the ranking                  *)
(***************************************************************************)
\* {"error": f"Failed game {game.get('id','?')}: {str(e)}"}
ErrorRecord(game, e) == [error |-> <<"Failed game", DGet(game, "id", "?"), e.msg>>]

\* "for game in events: try: players.extend(...) except Exception as e:
\* players.append({...})", resps[i] being the odds upstream's answer for events[i]
RECURSIVE GameLoop(_, _, _, _, _)
GameLoop(events, resps, boosts, i, players) ==
    IF i > Len(events) THEN players
    ELSE LET r == process_anytime_for_game(events[i], resps[i], boosts)
         IN  GameLoop(events, resps, boosts, i + 1,
                      IF r.raised THEN Append(players, ErrorRecord(events[i], r))
                      ELSE players \o r.value)

\* key=lambda p: p.get("edge", {}).get("probability_points", 0)
SortKey(p) == IF "edge" \in DOMAIN p THEN p.edge.probability_points ELSE 0

\* Insert with the ties reversed: a record goes in front of the records
\* already placed that have its key
InsertBeforeTies(sorted, p) ==
    LET before == {i \in 1..Len(sorted) : SortKey(sorted[i]) > SortKey(p)}
        k == IF before = {} THEN 0 ELSE CHOOSE i \in before : \A j \in before : j <= i
    IN  SubSeq(sorted, 1, k) \o <<p>> \o SubSeq(sorted, k + 1, Len(sorted))

\* list.sort(key=..., reverse=True) is stable: a record goes behind every
\* record already placed whose key is not smaller than its own
Insert(sorted, p) ==
    LET before == {i \in 1..Len(sorted) : SortKey(sorted[i]) >= SortKey(p)}
        k == IF before = {} THEN 0 ELSE CHOOSE i \in before : \A j \in before : j <= i
    IN  SubSeq(sorted, 1, k) \o <<p>> \o SubSeq(sorted, k + 1, Len(sorted))

RECURSIVE SortFrom(_, _, _)
SortFrom(players, i, sorted) ==
    IF i > Len(players) THEN sorted
    ELSE SortFrom(players, i + 1, Insert(sorted, players[i]))

SortPlayers(players) == SortFrom(players, 1, <<>>)

IsPlayer(x) == "player_name" \in DOMAIN x

\* The dict assigned to _cache_blob.  rid stands for the identity of the dict
\* (each call builds a new one); the constant "source" and "methodology"
\* entries are left out.
Snapshot(rid, players, boosts) ==
    [rid |-> rid,
     analysis_date |-> now,
     summary |-> [players |-> Len(SelectSeq(players, IsPlayer)),
                  teams_with_boosts |-> Cardinality(DOMAIN boosts)],
     players |-> players]

(***************************************************************************)
(* What the upstreams may answer                                           *)
(***************************************************************************)
Fail(k) == [kind |-> k]
Ok(body) == [kind |-> "ok", body |-> body]
Failures == {Fail(k) : k \in FailKinds}

\* Upstream A.  A side's counts are numbers, zero, or absent.
FeedGame(away, ap, av, home, hp, hv) ==
    [away_team |-> away, away_projected_tds |-> RInt(ap), away_vegas_tds |-> RInt(av),
     home_team |-> home, home_projected_tds |-> RInt(hp), home_vegas_tds |-> RInt(hv)]

ProjectionFeeds ==
    { [games |-> <<FeedGame("CHI", 3, 2, "PHI", 3, 4)>>],
      [games |-> <<FeedGame("CHI", 0, 2, "PHI", 3, 0)>>],
      [games |-> <<FeedGame("DEN", 2, 2, "PHI", 3, 2),
                   [away_team |-> "CHI", home_team |-> "PHI",
                    home_projected_tds |-> RInt(5), home_vegas_tds |-> RInt(2)]>>],
      [games |-> <<>>] }

ProjectionResponses == Failures \cup {Ok(b) : b \in ProjectionFeeds}

\* Upstream B, the fixture list
Fixtures ==
    << [id |-> "g1", home_team |-> "Philadelphia Eagles",
        away_team |-> "Chicago Bears", commence_time |-> "T1"],
       [id |-> "g2", home_team |-> "Denver Broncos",
        away_team |-> "London Monarchs", commence_time |-> "T2"],
       [id |-> "g3", home_team |-> "Chicago Bears",
        away_team |-> "Philadelphia Eagles", commence_time |-> "T3"],
       [id |-> "g4", home_team |-> "Denver Broncos",
        away_team |-> "Chicago Bears", commence_time |-> "T4"] >>

\* a fixture the upstream sent without an id
NoIdFixture == [home_team |-> "Philadelphia Eagles", away_team |-> "Denver Broncos",
                commence_time |-> "T0"]

\* how many fixtures a fixture list holds at most
MaxGames == 2

Reverse(s) == [i \in 1..Len(s) |-> s[Len(s) + 1 - i]]

\* fixture lists: the first n fixtures (n up to MaxGames) in both orders, each
\* of them alone, and one list with the fixture that has no id
EventLists ==
    {SubSeq(Fixtures, 1, n) : n \in 0..MaxGames}
    \cup {Reverse(SubSeq(Fixtures, 1, n)) : n \in 0..MaxGames}
    \cup {<<Fixtures[i]>> : i \in 1..MaxGames}
    \cup {<<NoIdFixture, Fixtures[1]>>}

EventResponses == Failures \cup {Ok(b) : b \in EventLists}

\* Upstream B, the odds of one fixture
AJ_BROWN == <<"A", ".", "J", ".", " ", "B", "r", "o", "w", "n">>
AJ_BROWN_PLAIN == <<" ", "a", "j", " ", " ", "B", "R", "O", "W", "N", " ">>
DJ_MOORE == <<"D", "J", " ", "M", "o", "o", "r", "e">>
BO_NIX == <<"B", "o", " ", "N", "i", "x">>
AL_DOE == <<"A", "l", " ", "D", "o", "e">>

Yes(desc, price) == [name |-> "Yes", description |-> desc, price |-> price]
No(desc, price) == [name |-> "No", description |-> desc, price |-> price]

OutcomeLists ==
    << <<Yes(AJ_BROWN, RInt(-150)), Yes(DJ_MOORE, RInt(150))>>,
      <<Yes(AL_DOE, Rat(3, 2)), No(AJ_BROWN, RInt(-150)), Yes(BO_NIX, RInt(150)),
        Yes(AJ_BROWN_PLAIN, RInt(150))>>,
      <<Yes(DJ_MOORE, RInt(150)), Yes(AJ_BROWN, RInt(0)), Yes(AL_DOE, RInt(150))>>,
      <<Yes(AL_DOE, Rat(2, 5))>>,
      <<Yes(AL_DOE, RInt(150)), Yes(<<" ">>, RInt(150)),
        [name |-> "Yes", description |-> BO_NIX], Yes(AL_DOE, RInt(-150))>> >>

Patd(outcomes) == [key |-> "player_anytime_td", outcomes |-> outcomes]
Book(key, outcomes) == [key |-> key, markets |-> <<[key |-> "h2h"], Patd(outcomes)>>]

\* a response: the bookmakers in the order it lists them, each quoting outcomes
Quote(order, outcomes) ==
    [bookmakers |-> [i \in 1..Len(order) |-> Book(order[i], outcomes)]]

MarketBodies ==
    { Quote(<<"fanduel">>, OutcomeLists[1]),
      Quote(<<"draftkings", "fanduel">>, OutcomeLists[1]),
      Quote(<<"pinnacle">>, OutcomeLists[1]),
      Quote(<<"pinnacle", "betmgm", "fanduel">>, OutcomeLists[2]),
      Quote(<<"fanduel">>, OutcomeLists[3]),
      Quote(<<"draftkings", "fanduel">>, OutcomeLists[4]),
      Quote(<<"fanduel">>, OutcomeLists[5]),
      [bookmakers |-> <<[key |-> "fanduel", markets |-> <<[key |-> "h2h"]>>]>>] }

MarketResponses == Failures \cup {Ok(b) : b \in MarketBodies}

(***************************************************************************)
(* The service: request threads over the module-level cache                *)
(***************************************************************************)
\* request threads of the server (Flask's app.run serves each request in
\* its own thread)
NumThreads == 2

\* requests that arrive in all
MaxRequests == 3

\* how often the clock advances
MaxTicks == 2

\* time.time() when the process starts: seconds since 1970, far beyond the TTL
StartTime == 5000

Threads == 1..NumThreads

UNKNOWN_TEAM_MODES == {"none", "average", "home", "away"}

Idle ==
    [pc |-> "idle", kind |-> "-", obs_blob |-> 0, obs_age |-> 0, obs_rid |-> 0,
     obs_failed_over |-> 0,
     rid |-> 0, feed |-> None, boosts |-> <<>>, events |-> <<>>, resps |-> <<>>,
     fetched |-> <<>>, players |-> <<>>, response |-> None]

InitWith(T, modes) ==
    /\ UNKNOWN_TEAM_MODE \in modes
    /\ now = StartTime
    /\ ticks = 0
    /\ _cache_blob = None
    /\ _cache_ts = 0
    /\ ts_rid = 0
    /\ failed_over = 0
    /\ next_rid = 0
    /\ requests = 0
    /\ th = [t \in T |-> Idle]

\* PLAYER_TEAM_MAP has been built from TOP200_BLOB when the server starts
Imported ==
    /\ blob = TOP200_BLOB
    /\ flat = TOP200_ROSTER
    /\ flat_line = ParseTable(TOP200_BLOB).line
    /\ parse_pc = "imported"
    /\ PLAYER_TEAM_MAP = NormalizedMap(TOP200_ROSTER)

Set(t, fields) == th' = [th EXCEPT ![t] = fields @@ th[t]]

CacheRid == IF _cache_blob = None THEN 0 ELSE _cache_blob.rid

\* time passes
Tick ==
    /\ ticks < MaxTicks
    /\ \E d \in {1, CACHE_TTL_SECS} : now' = now + d
    /\ ticks' = ticks + 1
    /\ UNCHANGED <<roster_vars, UNKNOWN_TEAM_MODE, _cache_blob, _cache_ts, ts_rid, failed_over,
                   next_rid, requests, th>>

\* GET /anytime-td-adjusted arrives: anytime_td_adjusted calls
\* get_cached_or_refresh
StartGet(t) ==
    /\ th[t].pc = "idle"
    /\ requests < MaxRequests
    /\ requests' = requests + 1
    /\ Set(t, [pc |-> "check", kind |-> "GET"])
    /\ UNCHANGED <<roster_vars, UNKNOWN_TEAM_MODE, now, ticks, _cache_blob, _cache_ts, ts_rid,
                   failed_over, next_rid>>

\* POST /refresh arrives: refresh calls refresh_all
StartPost(t) ==
    /\ th[t].pc = "idle"
    /\ requests < MaxRequests
    /\ requests' = requests + 1
    /\ Set(t, [pc |-> "fetch_boosts", kind |-> "POST"])
    /\ UNCHANGED <<roster_vars, UNKNOWN_TEAM_MODE, now, ticks, _cache_blob, _cache_ts, ts_rid,
                   failed_over, next_rid>>

\* "_cache_blob is None or (time.time() - _cache_ts > CACHE_TTL_SECS)"
IsStale == _cache_blob = None \/ now - _cache_ts > CACHE_TTL_SECS

\* get_cached_or_refresh evaluates its condition.  The obs_ fields are
\* history: the snapshot it saw, the age it computed, the refresh that wrote
\* the time it read, and failed_over as it was.
Check(t) ==
    /\ th[t].pc = "check"
    /\ Set(t, [pc |-> IF IsStale THEN "fetch_boosts" ELSE "ret_cached",
               obs_blob |-> CacheRid,
               obs_age |-> now - _cache_ts,
               obs_rid |-> ts_rid,
               obs_failed_over |-> failed_over])
    /\ UNCHANGED <<roster_vars, UNKNOWN_TEAM_MODE, now, ticks, _cache_blob, _cache_ts, ts_rid,
                   failed_over, next_rid, requests>>

\* "return _cache_blob" of get_cached_or_refresh, then jsonify(data)
ReturnCached(t) ==
    /\ th[t].pc = "ret_cached"
    /\ Set(t, [pc |-> "done",
               response |-> [status |-> 200, rid |-> CacheRid, data |-> _cache_blob,
                             reused_failed_over |->
                                 /\ th[t].obs_failed_over # 0
                                 /\ CacheRid = th[t].obs_failed_over]])
    /\ UNCHANGED <<roster_vars, UNKNOWN_TEAM_MODE, now, ticks, _cache_blob, _cache_ts, ts_rid,
                   failed_over, next_rid, requests>>

\* an exception leaves refresh_all: the route's except clause answers 500
RaiseOut(t, rid, e) ==
    /\ Set(t, [pc |-> "done", rid |-> rid, response |-> [status |-> 500, error |-> e.msg]])
    /\ failed_over' = CacheRid

\* refresh_all starts: "boosts = fetch_team_boosts()"
FetchBoosts(t, responses) ==
    /\ th[t].pc = "fetch_boosts"
    /\ next_rid' = next_rid + 1
    /\ \E resp \in responses :
         LET boosts == fetch_team_boosts(resp)
         IN  IF boosts.raised
             THEN RaiseOut(t, next_rid', boosts)
             ELSE /\ Set(t, [pc |-> "fetch_events", rid |-> next_rid', feed |-> resp,
                             boosts |-> boosts.value])
                  /\ UNCHANGED failed_over
    /\ UNCHANGED <<roster_vars, UNKNOWN_TEAM_MODE, now, ticks, _cache_blob, _cache_ts, ts_rid, requests>>

\* "events = fetch_nfl_events()"
FetchEvents(t, responses) ==
    /\ th[t].pc = "fetch_events"
    /\ \E resp \in responses :
         LET events == fetch_nfl_events(resp)
         IN  IF events.raised
             THEN RaiseOut(t, th[t].rid, events)
             ELSE /\ Set(t, [pc |-> "process", events |-> events.value])
                  /\ UNCHANGED failed_over
    /\ UNCHANGED <<roster_vars, UNKNOWN_TEAM_MODE, now, ticks, _cache_blob, _cache_ts, ts_rid,
                   next_rid, requests>>

\* the loop over the events and the sort; fetched is the list as the loop
\* leaves it, players the list after players.sort
ProcessGames(t, responses) ==
    /\ th[t].pc = "process"
    /\ \E resps \in [1..Len(th[t].events) -> responses] :
         LET fetched == GameLoop(th[t].events, resps, th[t].boosts, 1, <<>>)
         IN  Set(t, [pc |-> "store_blob", resps |-> resps, fetched |-> fetched,
                     players |-> SortPlayers(fetched)])
    /\ UNCHANGED <<roster_vars, UNKNOWN_TEAM_MODE, now, ticks, _cache_blob, _cache_ts, ts_rid,
                   failed_over, next_rid, requests>>

\* "_cache_blob = {...}"
StoreBlob(t) ==
    /\ th[t].pc = "store_blob"
    /\ _cache_blob' = Snapshot(th[t].rid, th[t].players, th[t].boosts)
    /\ failed_over' = 0
    /\ Set(t, [pc |-> "store_ts"])
    /\ UNCHANGED <<roster_vars, UNKNOWN_TEAM_MODE, now, ticks, _cache_ts, ts_rid, next_rid, requests>>

\* "_cache_ts = time.time()"
StoreTs(t) ==
    /\ th[t].pc = "store_ts"
    /\ _cache_ts' = now
    /\ ts_rid' = th[t].rid
    /\ Set(t, [pc |-> "return"])
    /\ UNCHANGED <<roster_vars, UNKNOWN_TEAM_MODE, now, ticks, _cache_blob, failed_over, next_rid, requests>>

\* "return _cache_blob" of refresh_all (the module-level name, read again),
\* then the route's jsonify
ReturnRefreshed(t) ==
    /\ th[t].pc = "return"
    /\ Set(t, [pc |-> "done",
               response |-> [status |-> 200, rid |-> CacheRid, data |-> _cache_blob,
                             reused_failed_over |-> FALSE]])
    /\ UNCHANGED <<roster_vars, UNKNOWN_TEAM_MODE, now, ticks, _cache_blob, _cache_ts, ts_rid,
                   failed_over, next_rid, requests>>

\* the response is sent; the thread is free for the next request
Finish(t) ==
    /\ th[t].pc = "done"
    /\ th' = [th EXCEPT ![t] = Idle]
    /\ UNCHANGED <<roster_vars, UNKNOWN_TEAM_MODE, now, ticks, _cache_blob, _cache_ts, ts_rid,
                   failed_over, next_rid, requests>>

(***************************************************************************)
(* Spec: the server under concurrent requests.  The upstreams answer from  *)
(* a small choice, so that the interleavings stay explorable.              *)
(***************************************************************************)
SmallProjections ==
    {Fail("exception"), Ok([games |-> <<FeedGame("CHI", 3, 2, "PHI", 3, 4)>>])}

SmallEvents == {Fail("http_error"), Ok(<<Fixtures[1]>>)}

SmallMarkets ==
    {Ok([bookmakers |-> <<Book("fanduel", <<Yes(AJ_BROWN, RInt(-150)),
                                            Yes(DJ_MOORE, RInt(150))>>)>>])}

Init == InitWith(Threads, {"none"}) /\ Imported

Next ==
    \/ Tick
    \/ \E t \in Threads : StartGet(t)
    \/ \E t \in Threads : StartPost(t)
    \/ \E t \in Threads : Check(t)
    \/ \E t \in Threads : ReturnCached(t)
    \/ \E t \in Threads : FetchBoosts(t, SmallProjections)
    \/ \E t \in Threads : FetchEvents(t, SmallEvents)
    \/ \E t \in Threads : ProcessGames(t, SmallMarkets)
    \/ \E t \in Threads : StoreBlob(t)
    \/ \E t \in Threads : StoreTs(t)
    \/ \E t \in Threads : ReturnRefreshed(t)
    \/ \E t \in Threads : Finish(t)

Spec == Init /\ [][Next]_vars

(***************************************************************************)
(* RosterSpec: the import.  parse_top200_blob runs on a roster text, one   *)
(* loop at a time, and PLAYER_TEAM_MAP is built from what it returns.  A   *)
(* text is up to MaxLines lines of RosterLines, each followed by a         *)
(* newline.  Beside its text a line carries how it is meant to be read:    *)
(* its leading token ("" when the line has no position), the player's name *)
(* and the abbreviation of its team label.                                 *)
(***************************************************************************)
RosterLine(text, lead, name, abbr) ==
    [text |-> text, lead |-> lead, name |-> name, abbr |-> abbr]

RosterLines == <<
    RosterLine(<<"W", "R", " ", "A", ".", "J", ".", " ", "B", "r", "o", "w", "n", ",", " ", "E", "a", "g", "l", "e", "s">>,
        "WR", <<"A", ".", "J", ".", " ", "B", "r", "o", "w", "n">>, "PHI"),
    RosterLine(<<"Q", "B", " ", "B", "o", " ", "N", "i", "x", ",", " ", "D", "e", "n", "v", "e", "r", " ", "B", "r", "o", "n", "c", "o", "s">>,
        "QB", <<"B", "o", " ", "N", "i", "x">>, "DEN"),
    RosterLine(<<"R", "B", " ", "A", "l", " ", "D", "o", "e", " ", "B", "e", "a", "r", "s">>,
        "RB", <<"A", "l", " ", "D", "o", "e">>, "CHI"),
    RosterLine(<<"T", "E", " ", "C", "y", " ", "L", "i", "o", "n", "s">>,
        "TE", <<"C", "y">>, "DET"),
    RosterLine(<<"E", "d", " ", "P", "o", "e", ",", " ", "J", "e", "t", "s">>,
        "", <<"E", "d", " ", "P", "o", "e">>, "NYJ"),
    RosterLine(<<"K", " ", "J", "o", " ", "R", "a", "y", ",", " ", "C", "o", "w", "b", "o", "y", "s">>,
        "K", <<"J", "o", " ", "R", "a", "y">>, "DAL"),
    RosterLine(<<"K", " ", "J", "o", " ", "R", "a", "y", " ", "C", "o", "w", "b", "o", "y", "s">>,
        "K", <<"J", "o", " ", "R", "a", "y">>, "DAL"),
    RosterLine(<<"D", "/", "S", "T", " ", "B", "a", "l", "t", "i", "m", "o", "r", "e", " ", "R", "a", "v", "e", "n", "s">>,
        "D/ST", <<>>, "BAL"),
    RosterLine(<<"D", "S", "T", " ", "N", "e", "w", " ", "Y", "o", "r", "k", " ", "J", "e", "t", "s">>,
        "DST", <<>>, "NYJ"),
    RosterLine(<<"D", "S", "T", " ", "N", "e", "w", " ", "Y", "o", "r", "k", ",", " ", "J", "e", "t", "s">>,
        "DST", <<>>, "NYJ"),
    RosterLine(<<"W", "R", " ", "X", "y", " ", "Z", "e", "d", ",", " ", "K", "a", "n", "s", "a", "s", " ", "C", "i", "t", "y", " ", "C", "h", "i", "e", "f", "s">>,
        "WR", <<"X", "y", " ", "Z", "e", "d">>, "KC"),
    RosterLine(<<"R", "B", " ", "M", "c", " ", "C", "a", "f", ",", " ", "4", "9", "e", "r", "s">>,
        "RB", <<"M", "c", " ", "C", "a", "f">>, "SF")>>

\* how many lines a roster text has at most
MaxLines == 2

RECURSIVE TextOf(_)
TextOf(ls) ==
    IF ls = <<>> THEN <<>>
    ELSE RosterLines[Head(ls)].text \o <<"\n">> \o TextOf(Tail(ls))

\* the choices of lines, as indices into RosterLines
RosterChoices ==
    UNION {[1..k -> 1..Len(RosterLines)] : k \in 1..MaxLines}

RosterTexts == {TextOf(ls) : ls \in RosterChoices}

RosterInit ==
    /\ InitWith({1}, {"none"})
    /\ blob \in RosterTexts
    /\ flat = EmptyDict
    /\ flat_line = EmptyDict
    /\ parse_pc = PATTERNS[1]
    /\ PLAYER_TEAM_MAP = EmptyDict

\* one of the three for loops of parse_top200_blob
ParseStep(k) ==
    /\ parse_pc = PATTERNS[k]
    /\ LET tab == ParseLoop(PATTERNS[k], [flat |-> flat, line |-> flat_line], blob)
       IN  /\ flat' = tab.flat
           /\ flat_line' = tab.line
    /\ parse_pc' = IF k < Len(PATTERNS) THEN PATTERNS[k + 1] ELSE "done"
    /\ UNCHANGED <<blob, PLAYER_TEAM_MAP, UNKNOWN_TEAM_MODE, now, ticks, _cache_blob,
                   _cache_ts, ts_rid, failed_over, next_rid, requests, th>>

LoopPosComma == ParseStep(1)
LoopPosNoComma == ParseStep(2)
LoopNoPosComma == ParseStep(3)

\* PLAYER_TEAM_MAP = {...} over what parse_top200_blob returned
BuildMap ==
    /\ parse_pc = "done"
    /\ PLAYER_TEAM_MAP' = NormalizedMap(flat)
    /\ parse_pc' = "imported"
    /\ UNCHANGED <<blob, flat, flat_line, UNKNOWN_TEAM_MODE, now, ticks, _cache_blob,
                   _cache_ts, ts_rid, failed_over, next_rid, requests, th>>

RosterNext == LoopPosComma \/ LoopPosNoComma \/ LoopNoPosComma \/ BuildMap

RosterSpec == RosterInit /\ [][RosterNext]_vars

(***************************************************************************)
(* EngineSpec: one refresh_all call, the upstreams answering anything of   *)
(* ProjectionResponses, EventResponses and MarketResponses.                *)
(***************************************************************************)
EngineInit == InitWith({1}, UNKNOWN_TEAM_MODES) /\ Imported

EngineNext ==
    \/ (requests = 0 /\ StartPost(1))
    \/ FetchBoosts(1, ProjectionResponses)
    \/ FetchEvents(1, EventResponses)
    \/ ProcessGames(1, MarketResponses)
    \/ StoreBlob(1)
    \/ StoreTs(1)
    \/ ReturnRefreshed(1)
    \/ Finish(1)

EngineSpec == EngineInit /\ [][EngineNext]_vars

(***************************************************************************)
(* The cache under concurrent requests (Spec)                              *)
(***************************************************************************)
\* the threads inside refresh_all
Refreshing == {t \in DOMAIN th : th[t].rid # 0 /\ th[t].pc \notin {"idle", "done"}}

\* the reads that have been answered with a snapshot
AnsweredReads ==
    {t \in DOMAIN th : th[t].pc = "done" /\ th[t].kind = "GET"
                       /\ th[t].response.status = 200}

\* what the read of thread t saw when it evaluated the staleness condition
SawFresh(t) == th[t].obs_blob # 0 /\ th[t].obs_age <= CACHE_TTL_SECS

\* C1: single flight.  Requests that find the cache stale at the same time,
\* and a forced refresh beside them, are served by one refresh_all execution:
\* no two executions of refresh_all are ever in progress together, and a read
\* that found the cache stale is answered with the snapshot of the one refresh
\* that ran.
C1_SingleFlight ==
    /\ Cardinality(Refreshing) <= 1
    /\ \A t \in AnsweredReads : ~SawFresh(t) => th[t].response.rid = th[t].rid

\* C2: TTL read semantics.  A read that finds a snapshot whose timestamp t0
\* is at most CACHE_TTL_SECS old starts no refresh and returns the snapshot
\* of the refresh that wrote t0; a read that finds no snapshot, or one older
\* than CACHE_TTL_SECS, starts a refresh and returns the snapshot that
\* refresh built.
C2_TtlRead ==
    \A t \in AnsweredReads :
        IF SawFresh(t)
        THEN th[t].rid = 0 /\ th[t].response.rid = th[t].obs_rid
        ELSE th[t].rid # 0 /\ th[t].response.rid = th[t].rid

\* C4: a failed refresh discards the old snapshot.  The request whose
\* refresh_all raised is answered 500, and no read that starts after the
\* failure is answered with the snapshot that was cached when it failed,
\* unless a refresh has succeeded in between.
C4_FailedRefreshDiscards ==
    /\ \A t \in DOMAIN th :
         (th[t].pc = "done" /\ th[t].rid # 0 /\ th[t].response.status = 200)
             => th[t].response.rid # 0
    /\ \A t \in AnsweredReads : ~th[t].response.reused_failed_over

\* C9: atomic swap.  In every state the cached snapshot and the cached
\* timestamp were written by the same refresh (or neither has been written).
C9_AtomicSwap == CacheRid = ts_rid

(***************************************************************************)
(* The snapshot one refresh builds (EngineSpec)                            *)
(***************************************************************************)
\* the threads whose refresh_all has fetched the team boosts
Boosted == {t \in DOMAIN th : th[t].pc \in {"fetch_events", "process", "store_blob",
                                            "store_ts", "return"}}

\* the threads whose refresh_all has stored the snapshot now in the cache:
\* their locals are the inputs _cache_blob was built from
Stored == {t \in DOMAIN th : th[t].pc \in {"store_ts", "return"}
                             /\ CacheRid = th[t].rid}

Occurs(s, x) == \E i \in 1..Len(s) : s[i] = x

\* the records of the snapshot that come from the fixture: its outcomes carry
\* its start time, its error record carries its id
OutcomesOfFixture(players, game) ==
    LET Mine(p) == IsPlayer(p) /\ p.commence_time = game.commence_time
    IN  SelectSeq(players, Mine)

ErrorsOfFixture(players, game) ==
    LET Mine(p) == "error" \in DOMAIN p /\ p.error[2] = game.id
    IN  SelectSeq(players, Mine)

HasId(game) == DGet(game, "id", "") # ""

\* C3: aggregation resilience.  When the odds fetch of a fixture fails
\* (exception, timeout, non-success status, malformed payload), the snapshot
\* holds exactly one error record naming that fixture, and still holds every
\* outcome of every other fixture.
C3_AggregationResilience ==
    \A t \in Stored :
        LET ev == th[t].events
            rs == th[t].resps
            ps == _cache_blob.players
        IN  \A i \in 1..Len(ev) :
              (HasId(ev[i]) /\ rs[i].kind \in FailKinds) =>
                /\ Len(ErrorsOfFixture(ps, ev[i])) = 1
                /\ \A j \in 1..Len(ev) :
                     LET r == process_anytime_for_game(ev[j], rs[j], th[t].boosts)
                     IN  (j # i /\ ~r.raised) =>
                             \A k \in 1..Len(r.value) : Occurs(ps, r.value[k])

\* the position of a bookmaker key in the preference list (0: not in it)
Priority(key) ==
    IF InPriority(key)
    THEN CHOOSE i \in 1..Len(BOOKMAKER_PRIORITY) : BOOKMAKER_PRIORITY[i] = key
    ELSE 0

\* the keys of the preferred bookmakers a response lists
PreferredKeys(market) ==
    {market.bookmakers[i].key : i \in 1..Len(market.bookmakers)} \cap
    {BOOKMAKER_PRIORITY[i] : i \in 1..Len(BOOKMAKER_PRIORITY)}

\* C5: bookmaker selection.  Every outcome of a fixture is quoted by the
\* bookmaker of its response that stands earliest in BOOKMAKER_PRIORITY,
\* whatever the order of the response; a response without a preferred
\* bookmaker contributes no outcome and no error.
C5_BookmakerByPriority ==
    \A t \in Stored :
        LET ev == th[t].events
            rs == th[t].resps
            ps == _cache_blob.players
        IN  \A i \in 1..Len(ev) :
              (HasId(ev[i]) /\ rs[i].kind = "ok") =>
                LET keys == PreferredKeys(rs[i].body)
                    mine == OutcomesOfFixture(ps, ev[i])
                IN  IF keys = {}
                    THEN mine = <<>> /\ ErrorsOfFixture(ps, ev[i]) = <<>>
                    ELSE \A k \in 1..Len(mine) :
                           \A other \in keys :
                               Priority(mine[k].bookmaker) <= Priority(other)

\* a "Yes" outcome with a player and a price
IsQuoted(o) ==
    /\ DGet(o, "name", "") = "Yes"
    /\ Strip(DGet(o, "description", <<>>)) # <<>>
    /\ DGet(o, "price", None) # None

\* its price is invalid: American odds of 0, or a price that rounds to 0
InvalidPrice(o) ==
    /\ ~(RLt(RInt(1), o.price) /\ RLt(o.price, RInt(10)))
    /\ Round(o.price) = 0

\* C6: InvalidOdds rejects one outcome.  When a "Yes" outcome of a fixture's
\* market has an invalid price, every other valid "Yes" outcome of that
\* market is still in the snapshot as an AdjustedOutcome.
C6_InvalidOddsRejectsOne ==
    \A t \in Stored :
        LET ev == th[t].events
            rs == th[t].resps
            ps == _cache_blob.players
        IN  \A i \in 1..Len(ev) :
              (HasId(ev[i]) /\ rs[i].kind = "ok"
                 /\ ChooseBook(rs[i].body) # None
                 /\ FindPatd(ChooseBook(rs[i].body)) # None) =>
                LET outs == FindPatd(ChooseBook(rs[i].body)).outcomes
                    mine == OutcomesOfFixture(ps, ev[i])
                IN  (\E k \in 1..Len(outs) : IsQuoted(outs[k]) /\ InvalidPrice(outs[k]))
                    => \A k \in 1..Len(outs) :
                         (IsQuoted(outs[k]) /\ ~InvalidPrice(outs[k])) =>
                            \E m \in 1..Len(mine) :
                                mine[m].player_name = Strip(outs[k].description)

Edge(p) == p.edge.probability_points

\* C7: ranking.  The AdjustedOutcome records of the snapshot are in
\* non-increasing order of edge.probability_points, and those with the same
\* edge stand in the order in which they were fetched.
C7_Ranking ==
    \A t \in Stored :
        LET ps == SelectSeq(_cache_blob.players, IsPlayer)
            fs == SelectSeq(th[t].fetched, IsPlayer)
        IN  /\ \A i \in 1..(Len(ps) - 1) : Edge(ps[i]) >= Edge(ps[i + 1])
            /\ Len(ps) = Len(fs)
            /\ \A e \in {Edge(ps[i]) : i \in 1..Len(ps)} :
                 LET Tied(p) == Edge(p) = e
                 IN  SelectSeq(ps, Tied) = SelectSeq(fs, Tied)

\* a snapshot whose records were fetched out of rank order and in which two
\* different outcomes of different fixtures have the same edge
C7_Witness ==
    \E t \in Stored :
        LET ps == SelectSeq(_cache_blob.players, IsPlayer)
            fs == SelectSeq(th[t].fetched, IsPlayer)
        IN  /\ \E i, j \in 1..Len(fs) : i < j /\ Edge(fs[i]) < Edge(fs[j])
            /\ \E i, j \in 1..Len(ps) :
                 /\ i < j
                 /\ Edge(ps[i]) = Edge(ps[j])
                 /\ ps[i].commence_time # ps[j].commence_time

\* the multiplier the rule of C8 gives an outcome of the game "away @ home"
RuleLift(team, home, away, boosts) ==
    LET home_boost == IF home \in DOMAIN boosts THEN boosts[home] ELSE RInt(1)
        away_boost == IF away \in DOMAIN boosts THEN boosts[away] ELSE RInt(1)
    IN  IF team = home THEN home_boost
        ELSE IF team = away THEN away_boost
        ELSE CASE UNKNOWN_TEAM_MODE = "none" -> RInt(1)
               [] UNKNOWN_TEAM_MODE = "average" ->
                      RDiv(RAdd(home_boost, away_boost), RInt(2))
               [] UNKNOWN_TEAM_MODE = "home" -> home_boost
               [] UNKNOWN_TEAM_MODE = "away" -> away_boost

\* C8: multiplier selection.  The team_lift of every outcome is the home
\* boost when the player resolves to the home team, the away boost when he
\* resolves to the away team, and otherwise what UNKNOWN_TEAM_MODE dictates
\* (1.0, the mean of the two boosts, the home boost, the away boost); a team
\* without an entry in the boosts counts 1.0.
C8_MultiplierSelection ==
    \A t \in Stored :
        LET ps == SelectSeq(_cache_blob.players, IsPlayer)
        IN  \A i \in 1..Len(ps) :
              ps[i].adjusted.team_lift =
                  Round4(RuleLift(ps[i].team, ps[i].game[3], ps[i].game[1],
                                  th[t].boosts))

\* an outcome of a player on neither side, under the "average" mode, in a game
\* whose two boosts differ
C8_Witness ==
    \E t \in Stored :
        LET ps == SelectSeq(_cache_blob.players, IsPlayer)
            b == th[t].boosts
        IN  /\ UNKNOWN_TEAM_MODE = "average"
            /\ \E i \in 1..Len(ps) :
                 /\ ps[i].team \notin {ps[i].game[1], ps[i].game[3]}
                 /\ ps[i].game[1] \in DOMAIN b
                 /\ ps[i].game[3] \in DOMAIN b
                 /\ b[ps[i].game[1]] # b[ps[i].game[3]]

\* the sides of the feed: <<team, sportsbook-implied count>>
FeedSides(feed) ==
    LET gs == DGet(feed, "games", <<>>)
    IN  {<<DGet(gs[i], "away_team", ""), DGet(gs[i], "away_vegas_tds", RInt(0))>> :
            i \in 1..Len(gs)}
        \cup
        {<<DGet(gs[i], "home_team", ""), DGet(gs[i], "home_vegas_tds", RInt(0))>> :
            i \in 1..Len(gs)}

\* C10: team boosts are never zero.  fetch_team_boosts gives an entry only to
\* a team with a side whose sportsbook-implied count is strictly positive,
\* and every entry is strictly greater than 0.
C10_BoostsPositive ==
    \A t \in Boosted :
        LET b == th[t].boosts
        IN  \A team \in DOMAIN b :
              /\ \E s \in FeedSides(th[t].feed.body) : s[1] = team /\ RLt(RInt(0), s[2])
              /\ RLt(RInt(0), b[team])

(***************************************************************************)
(* C11: the roster                                                         *)
(***************************************************************************)
\* the lines of a roster text: the text between its newlines
RECURSIVE BlobLinesFrom(_, _, _)
BlobLinesFrom(s, i, cur) ==
    IF i > Len(s) THEN (IF cur = <<>> THEN <<>> ELSE <<cur>>)
    ELSE IF s[i] = "\n" THEN <<cur>> \o BlobLinesFrom(s, i + 1, <<>>)
    ELSE BlobLinesFrom(s, i + 1, Append(cur, s[i]))

BlobLines == BlobLinesFrom(blob, 1, <<>>)

\* how line i of the roster text is meant to be read
Reading(i) ==
    CHOOSE l \in {RosterLines[j] : j \in 1..Len(RosterLines)} : l.text = BlobLines[i]

\* the keys of the table that line i of the roster text wrote
KeysOfLine(i) == {k \in DOMAIN flat : flat_line[k] = i}

\* no other line of the text names the player of line i
NamedOnce(i) ==
    \A j \in 1..Len(BlobLines) : j # i => Reading(j).name # Reading(i).name

\* C11: defense and kicker lines are excluded from the roster.  Once
\* parse_top200_blob has run its three loops, a line that leads with D/ST,
\* DST or K has written no entry, and a QB/RB/WR/TE line with a known team
\* label has written exactly one entry: the player's name, with that team.
C11_DefenseKickerExcluded ==
    parse_pc \in {"done", "imported"} =>
        \A i \in 1..Len(BlobLines) :
            /\ Reading(i).lead \in {"D/ST", "DST", "K"} => KeysOfLine(i) = {}
            /\ (Reading(i).lead \in {"QB", "RB", "WR", "TE"} /\ NamedOnce(i)) =>
                  /\ KeysOfLine(i) = {Reading(i).name}
                  /\ flat[Reading(i).name] = Reading(i).abbr

====
